---- MODULE Spec2Model ----
(***************************************************************************)
(* The feature-interpretation pipeline of shared/interp.py                 *)
(* (run_interp_pipeline): registry construction, evidence sampling, the    *)
(* three calls to the interpretation service, and the hand-over of each    *)
(* labelled Feature to the caller's handler.                               *)
(***************************************************************************)
EXTENDS Integers, Sequences, FiniteSets, TLC

\* ------------------------------------------------------------------ bounds
\* len(embeddings): the number of samples (columns of the registry).
NumSamples == 101
\* n_feature_activations: the number of rows of the untruncated registry.
NumFeatures == 2
\* Activations are drawn from 0..MaxAct.
MaxAct == 2

\* --------------------------------------------------------------- constants
\* The size of both evidence sets (feature_samples[:50], choice(.., 50, ..)).
EvidenceSize == 50

\* ------------------------------------------------------------- arithmetic
Min(a, b) == IF a <= b THEN a ELSE b

Abs(x) == IF x < 0 THEN -x ELSE x

RECURSIVE GCD(_, _)
GCD(a, b) == IF b = 0 THEN a ELSE GCD(b, a % b)

\* The quotient a / b of two naturals, kept exact as a fraction in lowest terms.
Quotient(a, b) ==
    LET g == GCD(a, b)
    IN  <<a \div g, b \div g>>

\* Python's option type: None, or a value.
None == <<>>

Some(v) == <<v>>

\* ------------------------------------------------------------------ inputs
\* The sparse codes the model produces: one activation row per feature.  The
\* catalogue holds rows with k non-zero activations placed at the end of the
\* row ("tail") or interleaved with zeros ("mid"), with repeated values.
ActRow(k, pat) ==
    [i \in 1..NumSamples |->
        IF pat = "tail"
        THEN IF i > NumSamples - k THEN 1 + (i % MaxAct) ELSE 0
        ELSE IF \/ (i % 2 = 0 /\ i \div 2 <= k)
                \/ (i % 2 = 1 /\ (i + 1) \div 2 <= k - NumSamples \div 2)
             THEN 1 + ((i \div 2) % MaxAct)
             ELSE 0]

\* all zero; one short of enough zeros; sparse; more than 50 non-zero; dense.
RowCatalogue ==
    << ActRow(0, "tail"),
       ActRow(NumSamples - EvidenceSize + 1, "tail"),
       ActRow(2, "mid"),
       ActRow(NumSamples - EvidenceSize, "mid"),
       ActRow(NumSamples, "mid") >>

\* The rows of one run: NumFeatures consecutive rows of the cyclic catalogue.
CatalogueWindow(w) ==
    [f \in 1..NumFeatures |-> RowCatalogue[((w + f - 2) % Len(RowCatalogue)) + 1]]

\* sae.forward(embedding)[1] for sample i: the code vector over all features.
SaeCodes(w) ==
    [i \in 1..NumSamples |-> [f \in 1..NumFeatures |-> CatalogueWindow(w)[f][i]]]

\* text_data: one sentence per sample (the sentence of sample i is named i).
text_data == [i \in 1..NumSamples |-> i]

\* What the interpretation service can answer.
AttributeLists == {"attrs_a", "attrs_b"}

Percents == {0, 40, 100}

InterpretationKeys == {"label", "reasoning", "attributes"}

Interpretation(a) ==
    [label |-> <<"label", a>>, reasoning |-> <<"reasoning", a>>, attributes |-> a]

\* A response lacking one of the keys the pipeline reads.
Malformed(k) ==
    [x \in InterpretationKeys \ {k} |-> Interpretation("attrs_a")[x]]

InterpretationOutcomes ==
    {[kind |-> "raise"]}
    \cup {[kind |-> "return", resp |-> Interpretation(a)] : a \in AttributeLists}
    \cup {[kind |-> "return", resp |-> Malformed(k)] : k \in InterpretationKeys}

ScoreOutcomes ==
    {[kind |-> "raise"]}
    \cup {[kind |-> "return", resp |-> [percent |-> p]] : p \in Percents}
    \cup {[kind |-> "return", resp |-> <<>>]}

\* ------------------------------------------------------------------- state
VARIABLES
    sae_code,           \* the model's codes, sae_code[i][f]
    max_features,       \* None or Some(k)
    feature_registry,   \* feature_registry[f][i], after truncation
    index,              \* enumerate's index of the row being processed
    pc,                 \* position in run_interp_pipeline
    high_act_samples,
    low_act_samples,
    label,
    reasoning,
    attributes,
    high_act_score,
    low_act_score,
    calls,              \* the calls made to the service and to the handler
    stdout              \* the lines printed

vars == <<sae_code, max_features, feature_registry, index, pc, high_act_samples,
          low_act_samples, label, reasoning, attributes, high_act_score,
          low_act_score, calls, stdout>>

locals == <<label, reasoning, attributes, high_act_score, low_act_score>>

inputs == <<sae_code, max_features>>

\* ------------------------------------------------------- registry building
\* feature_registry[:, i] = sae.forward(embeddings[i])[1], for every sample i.
BuildRegistry(codes) ==
    [f \in 1..NumFeatures |-> [i \in 1..NumSamples |-> codes[i][f]]]

\* feature_registry[:max_features, :]
Truncate(registry, mf) ==
    IF mf = None
    THEN registry
    ELSE SubSeq(registry, 1, Min(mf[1], Len(registry)))

\* ------------------------------------------------------- evidence sampling
FeatureSample(i, value) == [text |-> text_data[i], act |-> value]

FeatureSamples(feature) ==
    [i \in 1..Len(feature) |-> FeatureSample(i, feature[i])]

\* The samples of activation v, in their order.
Bucket(samples, v) == SelectSeq(samples, LAMBDA sample : sample.act = v)

RECURSIVE BucketsFrom(_, _)
BucketsFrom(samples, v) ==
    IF v < 0 THEN <<>> ELSE Bucket(samples, v) \o BucketsFrom(samples, v - 1)

MaxActivation(samples) ==
    IF samples = <<>>
    THEN 0
    ELSE CHOOSE m \in {samples[i].act : i \in DOMAIN samples} :
            \A i \in DOMAIN samples : samples[i].act <= m

\* list.sort(key=lambda x: x.act, reverse=True): descending by activation,
\* samples of equal activation keeping their order (the sort is stable).
SortDescending(samples) == BucketsFrom(samples, MaxActivation(samples))

IsNonZero(sample) == sample.act # 0

IsZero(sample) == sample.act = 0

\* HighActSamples without the test for a non-zero activation.
HighActSamples_NoFilter(sorted) ==
    SubSeq(sorted, 1, Min(EvidenceSize, Len(sorted)))

\* [sample for sample in feature_samples[:50] if sample.act != 0]
HighActSamples(sorted) ==
    SelectSeq(SubSeq(sorted, 1, Min(EvidenceSize, Len(sorted))), IsNonZero)

\* [sample for sample in feature_samples if sample.act == 0]
ZeroActSamples(sorted) == SelectSeq(sorted, IsZero)

\* One draw of 50 of the candidates, none twice: 50 consecutive candidates
\* starting after `offset`, wrapping around.
Draw(candidates, offset) ==
    [j \in 1..EvidenceSize |-> candidates[((offset + j - 1) % Len(candidates)) + 1]]

\* RandomChoice drawing with replacement: a candidate may come twice, and a
\* draw exists whenever there is a candidate.
RandomChoice_WithReplacement(candidates) ==
    IF candidates = <<>>
    THEN {}
    ELSE {[j \in 1..EvidenceSize |->
              candidates[((o + (j \div 2)) % Len(candidates)) + 1]] :
          o \in {0, Len(candidates) \div 2}}

\* np.random.choice(candidates, 50, replace=False): the draws it may return;
\* none when there are fewer than 50 candidates (it raises ValueError).
RandomChoice(candidates) ==
    IF Len(candidates) < EvidenceSize
    THEN {}
    ELSE {Draw(candidates, o) : o \in {0, Len(candidates) \div 2}}

\* ----------------------------------------------------------- the pipeline
Init ==
    /\ \E w \in 1..Len(RowCatalogue) : sae_code = SaeCodes(w)
    /\ max_features \in {None} \cup {Some(k) : k \in 0..(NumFeatures + 1)}
    /\ feature_registry = <<>>
    /\ index = 0
    /\ pc = "build"
    /\ high_act_samples = <<>>
    /\ low_act_samples = <<>>
    /\ label = <<>>
    /\ reasoning = <<>>
    /\ attributes = "unbound"
    /\ high_act_score = None
    /\ low_act_score = None
    /\ calls = <<>>
    /\ stdout = <<>>

\* Lines 81-90: build the registry and truncate it.
CreateFeatureRegistry ==
    /\ pc = "build"
    /\ feature_registry' = Truncate(BuildRegistry(sae_code), max_features)
    /\ pc' = "loop"
    /\ UNCHANGED <<inputs, index, high_act_samples, low_act_samples, locals,
                   calls, stdout>>

\* Line 92: the loop is exhausted and the function returns.
Return ==
    /\ pc = "loop"
    /\ index >= Len(feature_registry)
    /\ pc' = "done"
    /\ UNCHANGED <<inputs, feature_registry, index, high_act_samples,
                   low_act_samples, locals, calls, stdout>>

\* Lines 95-106: pair texts with activations, sort, and select the evidence.
\* np.random.choice raises ValueError outside the try block when fewer than
\* 50 samples have zero activation; the exception leaves the function.
SampleEvidence ==
    /\ pc = "loop"
    /\ index < Len(feature_registry)
    /\ LET feature == feature_registry[index + 1]
           feature_samples == SortDescending(FeatureSamples(feature))
           draws == RandomChoice(ZeroActSamples(feature_samples))
       IN  /\ high_act_samples' = HighActSamples(feature_samples)
           /\ IF draws = {}
              THEN /\ pc' = "raised"
                   /\ UNCHANGED low_act_samples
              ELSE /\ low_act_samples' \in draws
                   /\ pc' = "interp"
    /\ UNCHANGED <<inputs, feature_registry, index, locals, calls, stdout>>

\* Lines 120-122: print the error and continue with the next row.
ExceptContinue(e) ==
    /\ stdout' = Append(stdout, <<"Skipping feature due to error", e>>)
    /\ index' = index + 1
    /\ pc' = "loop"

\* The arguments of the three service calls.  Every call the pipeline makes
\* to a collaborator is recorded, in order, with the row it was made for.
InterpretationArgs == <<high_act_samples, low_act_samples>>

ScoreHighArgs == <<high_act_samples, attributes>>

\* ScoreLowArgs passing the high-evidence set a second time.
ScoreLowArgs_HighAgain == <<high_act_samples, attributes>>

ScoreLowArgs == <<low_act_samples, attributes>>

Call(fn, args, out) == [fn |-> fn, index |-> index, args |-> args, out |-> out]

\* Lines 109-112: the interpretation call and the reading of its three keys.
GetInterpretation ==
    /\ pc = "interp"
    /\ \E out \in InterpretationOutcomes :
        /\ calls' = Append(calls, Call("get_interpretation", InterpretationArgs, out))
        /\ IF out.kind = "raise"
           THEN /\ ExceptContinue("ServiceError")
                /\ UNCHANGED <<label, reasoning, attributes>>
           ELSE IF "label" \notin DOMAIN out.resp
           THEN /\ ExceptContinue("KeyError")
                /\ UNCHANGED <<label, reasoning, attributes>>
           ELSE IF "reasoning" \notin DOMAIN out.resp
           THEN /\ label' = out.resp.label
                /\ ExceptContinue("KeyError")
                /\ UNCHANGED <<reasoning, attributes>>
           ELSE IF "attributes" \notin DOMAIN out.resp
           THEN /\ label' = out.resp.label
                /\ reasoning' = out.resp.reasoning
                /\ ExceptContinue("KeyError")
                /\ UNCHANGED attributes
           ELSE /\ label' = out.resp.label
                /\ reasoning' = out.resp.reasoning
                /\ attributes' = out.resp.attributes
                /\ pc' = "score_high"
                /\ UNCHANGED <<index, stdout>>
    /\ UNCHANGED <<inputs, feature_registry, high_act_samples, low_act_samples,
                   high_act_score, low_act_score>>

\* Lines 114-116: score the attributes against the high-evidence set.
ScoreHigh ==
    /\ pc = "score_high"
    /\ \E out \in ScoreOutcomes :
        /\ calls' = Append(calls, Call("score_interpretation", ScoreHighArgs, out))
        /\ IF out.kind = "raise"
           THEN /\ ExceptContinue("ServiceError")
                /\ UNCHANGED high_act_score
           ELSE IF "percent" \notin DOMAIN out.resp
           THEN /\ ExceptContinue("KeyError")
                /\ UNCHANGED high_act_score
           ELSE /\ high_act_score' = Some(out.resp.percent)
                /\ pc' = "score_low"
                /\ UNCHANGED <<index, stdout>>
    /\ UNCHANGED <<inputs, feature_registry, high_act_samples, low_act_samples,
                   label, reasoning, attributes, low_act_score>>

\* ScoreLow taking a score of 0 when the call fails, instead of skipping.
ScoreLow_DefaultOnError ==
    /\ pc = "score_low"
    /\ \E out \in ScoreOutcomes :
        /\ calls' = Append(calls, Call("score_interpretation",
                                       <<low_act_samples, attributes>>, out))
        /\ low_act_score' =
              IF out.kind = "raise" \/ "percent" \notin DOMAIN out.resp
              THEN Some(0)
              ELSE Some(out.resp.percent)
        /\ pc' = "emit"
        /\ UNCHANGED <<index, stdout>>
    /\ UNCHANGED <<inputs, feature_registry, high_act_samples, low_act_samples,
                   label, reasoning, attributes, high_act_score>>

\* Lines 117-119: score the attributes against the low-evidence set.
ScoreLow ==
    /\ pc = "score_low"
    /\ \E out \in ScoreOutcomes :
        /\ calls' = Append(calls, Call("score_interpretation", ScoreLowArgs, out))
        /\ IF out.kind = "raise"
           THEN /\ ExceptContinue("ServiceError")
                /\ UNCHANGED low_act_score
           ELSE IF "percent" \notin DOMAIN out.resp
           THEN /\ ExceptContinue("KeyError")
                /\ UNCHANGED low_act_score
           ELSE /\ low_act_score' = Some(out.resp.percent)
                /\ pc' = "emit"
                /\ UNCHANGED <<index, stdout>>
    /\ UNCHANGED <<inputs, feature_registry, high_act_samples, low_act_samples,
                   label, reasoning, attributes, high_act_score>>

\* Confidence without the absolute value.
Confidence_Signed(high_score, low_score) == high_score - low_score

\* abs(high_act_score - low_act_score)
Confidence(high_score, low_score) == Abs(high_score - low_score)

CountNonZero(feature) == Cardinality({i \in 1..Len(feature) : feature[i] # 0})

\* np.count_nonzero(feature) / len(feature)
Density(feature) == Quotient(CountNonZero(feature), Len(feature))

\* LabelledFeature with the density taken over the two evidence sets.
LabelledFeature_EvidenceDensity ==
    [index |-> index,
     label |-> label,
     attributes |-> attributes,
     reasoning |-> reasoning,
     confidence |-> Abs(high_act_score[1] - low_act_score[1]),
     density |-> Quotient(Len(high_act_samples),
                          Len(high_act_samples) + Len(low_act_samples)),
     high_act_samples |-> high_act_samples,
     low_act_samples |-> low_act_samples]

\* Lines 124-133: the Feature record.
LabelledFeature ==
    [index |-> index,
     label |-> label,
     attributes |-> attributes,
     reasoning |-> reasoning,
     confidence |-> Confidence(high_act_score[1], low_act_score[1]),
     density |-> Density(feature_registry[index + 1]),
     high_act_samples |-> high_act_samples,
     low_act_samples |-> low_act_samples]

\* Line 135: hand the Feature to the caller, then go on to the next row.
HandleLabelledFeature ==
    /\ pc = "emit"
    /\ calls' = Append(calls, Call("handle_labelled_feature", <<LabelledFeature>>,
                                   [kind |-> "return"]))
    /\ index' = index + 1
    /\ pc' = "loop"
    /\ UNCHANGED <<inputs, feature_registry, high_act_samples, low_act_samples,
                   locals, stdout>>

Next ==
    \/ CreateFeatureRegistry
    \/ SampleEvidence
    \/ GetInterpretation
    \/ ScoreHigh
    \/ ScoreLow
    \/ HandleLabelledFeature
    \/ Return

Spec == Init /\ [][Next]_vars

\* ------------------------------------------------------------ observations
IsHandlerCall(c) == c.fn = "handle_labelled_feature"

\* The Features the handler has received, in order.
Handled ==
    LET hs == SelectSeq(calls, IsHandlerCall)
    IN  [i \in 1..Len(hs) |-> hs[i].args[1]]

\* The service calls made for row f, in order.
ServiceCalls(f) ==
    SelectSeq(calls, LAMBDA c : c.index = f /\ ~IsHandlerCall(c))

\* The call returned, and the response holds every key the pipeline reads.
Succeeded(c) ==
    /\ c.out.kind = "return"
    /\ IF c.fn = "get_interpretation"
       THEN InterpretationKeys \subseteq DOMAIN c.out.resp
       ELSE "percent" \in DOMAIN c.out.resp

AllSucceeded(f) ==
    LET cs == ServiceCalls(f)
    IN  /\ Len(cs) = 3
        /\ \A i \in 1..3 : Succeeded(cs[i])

\* The Features the handler has received, as a set.
HandledFeatures ==
    {calls[p].args[1] : p \in {q \in DOMAIN calls : IsHandlerCall(calls[q])}}

\* The registry before truncation.
FullRegistry == BuildRegistry(sae_code)

FullRow(f) == FullRegistry[f + 1]

ZeroPositions(row) == {i \in DOMAIN row : row[i] = 0}

NonZeroPositions(row) == {i \in DOMAIN row : row[i] # 0}

\* The rows run_interp_pipeline is asked to process.
RowLimit ==
    IF max_features = None THEN NumFeatures ELSE Min(max_features[1], NumFeatures)

\* The rows for which the interpretation service was asked.
InterpretedRows ==
    {calls[j].index : j \in {i \in DOMAIN calls : calls[i].fn = "get_interpretation"}}

\* Numbers printed as a count of skipped features.
SkipCountReports ==
    {stdout[j][2] : j \in {i \in DOMAIN stdout : stdout[i][1] = "Skipped features"}}

\* ------------------------------------------------------------------ claims
\* C1: a feature whose row has fewer than 50 zero entries is skipped (no
\* handler call), no error leaves run_interp_pipeline, and every later row is
\* still processed.
C1_EvidenceShortageSkipsFeature ==
    /\ pc # "raised"
    /\ \A h \in HandledFeatures :
          Cardinality(ZeroPositions(FullRow(h.index))) >= EvidenceSize
    /\ pc = "done" => index = Len(feature_registry)

\* C2: a feature with a failed service call (an exception, or a response
\* lacking a key) is skipped: the handler is not invoked for it and the failed
\* call is the last one made for it; whatever the service does, the pipeline
\* processes every row and returns.
C2_ServiceFailureSkipsFeature ==
    /\ \A f \in 0..index :
          LET cs == ServiceCalls(f)
          IN  \A i \in DOMAIN cs :
                 ~Succeeded(cs[i]) =>
                    /\ i = Len(cs)
                    /\ \A h \in HandledFeatures : h.index # f
    /\ pc # "raised"
    /\ pc = "done" => index = Len(feature_registry)

\* C3: when every call to the interpretation service raises, a run that
\* returns has handed no Feature to the handler and has reported a skip count
\* equal to the number of rows processed.
C3_AllFailingServiceReportsSkipCount ==
    (/\ pc = "done"
     /\ calls # <<>>
     /\ \A i \in DOMAIN calls : calls[i].out.kind = "raise")
    => /\ HandledFeatures = {}
       /\ SkipCountReports = {index}

\* C7: with max_features = k the rows interpreted are exactly rows 0..k-1 of
\* the registry (all rows when max_features is absent), and every Feature
\* handed over carries the index its row has in the untruncated registry.
C7_TruncationInterpretsFirstRows ==
    /\ pc # "build" => feature_registry = SubSeq(FullRegistry, 1, RowLimit)
    /\ \A h \in HandledFeatures :
          /\ h.index \in 0..(RowLimit - 1)
          /\ h.density = Density(FullRow(h.index))
    /\ pc \in {"done", "raised"} => InterpretedRows = 0..(RowLimit - 1)

\* The position in the row of the sample a FeatureSample was made from.
PositionOfText ==
    [t \in {text_data[i] : i \in DOMAIN text_data} |->
        CHOOSE i \in DOMAIN text_data : text_data[i] = t]

Position(sample) == PositionOfText[sample.text]

Positions(samples) == {Position(samples[i]) : i \in DOMAIN samples}

\* The Feature's fields are the ones its own three service calls produced, and
\* the handler was called right after them.
ComputedFromOwnCalls(h) ==
    LET cs == ServiceCalls(h.index)
        at == CHOOSE p \in DOMAIN calls :
                 IsHandlerCall(calls[p]) /\ calls[p].args[1] = h
    IN  /\ h.label = cs[1].out.resp.label
        /\ h.reasoning = cs[1].out.resp.reasoning
        /\ h.attributes = cs[1].out.resp.attributes
        /\ h.high_act_samples = cs[1].args[1]
        /\ h.low_act_samples = cs[1].args[2]
        /\ h.confidence \in {cs[2].out.resp.percent - cs[3].out.resp.percent,
                             cs[3].out.resp.percent - cs[2].out.resp.percent}
        /\ h.density[2] > 0
        /\ at > 3
        /\ \A d \in 1..3 : calls[at - d] = cs[4 - d]

\* C4: the handler is invoked exactly once for each feature whose
\* interpretation call and both scoring calls succeeded, never for another
\* feature, and only once every field of the Feature has been computed.
C4_HandlerOncePerSuccessfulFeature ==
    LET hd == Handled
    IN  /\ \A i, j \in DOMAIN hd : hd[i].index = hd[j].index => i = j
        /\ \A i \in DOMAIN hd :
              /\ AllSucceeded(hd[i].index)
              /\ ComputedFromOwnCalls(hd[i])
        /\ \A f \in 0..(index - 1) :
              AllSucceeded(f) => \E i \in DOMAIN hd : hd[i].index = f

\* A run that returned after skipping one feature and handing over another.
C4_Witness ==
    /\ pc = "done"
    /\ Len(Handled) = 1
    /\ \E f \in 0..(index - 1) : ServiceCalls(f) # <<>> /\ ~AllSucceeded(f)

\* The samples are the min(50, k) samples of largest activation among the k
\* non-zero entries of the row, in descending order of activation.
IsTopNonZero(high, row) ==
    LET nz == NonZeroPositions(row)
        n == Min(EvidenceSize, Cardinality(nz))
        at == [i \in DOMAIN high |-> Position(high[i])]
        taken == {at[i] : i \in DOMAIN high}
        left == {row[q] : q \in DOMAIN row \ taken}
    IN  /\ Len(high) = n
        /\ Cardinality(taken) = n
        /\ \A i \in DOMAIN high :
              /\ at[i] \in nz
              /\ high[i].act = row[at[i]]
              /\ i < Len(high) => high[i].act >= high[i + 1].act
              /\ \A act \in left : act <= high[i].act

\* C5: the high-evidence set of every row consists of exactly the min(50, k)
\* samples of largest activation, k being the number of non-zero entries;
\* every sample in it is non-zero and the set is in descending order.
C5_HighEvidenceIsTopNonZero ==
    /\ pc \in {"interp", "score_high", "score_low", "emit", "raised"} =>
          IsTopNonZero(high_act_samples, feature_registry[index + 1])
    /\ \A h \in HandledFeatures :
          IsTopNonZero(h.high_act_samples, FullRow(h.index))

\* A row with more than 50 non-zero entries, of which 50 were taken.
C5_Witness ==
    /\ pc = "interp"
    /\ Cardinality(NonZeroPositions(feature_registry[index + 1])) > EvidenceSize
    /\ Len(high_act_samples) = EvidenceSize

\* C6: the low-evidence set of every emitted Feature holds exactly 50
\* samples, of 50 distinct positions of the row, each of activation zero; it
\* shares no sample with the high-evidence set.
C6_LowEvidenceFiftyDistinctZeros ==
    \A h \in HandledFeatures :
        LET low == h.low_act_samples
            row == FullRow(h.index)
            drawn == Positions(low)
        IN  /\ Len(low) = EvidenceSize
            /\ Cardinality(drawn) = EvidenceSize
            /\ \A j \in DOMAIN low : low[j].act = 0
            /\ \A q \in drawn : row[q] = 0
            /\ drawn \cap Positions(h.high_act_samples) = {}

\* An emitted Feature with both evidence sets full.
C6_Witness ==
    \E h \in HandledFeatures :
        /\ Len(h.high_act_samples) = EvidenceSize
        /\ Len(h.low_act_samples) = EvidenceSize

\* C8: the density of every emitted Feature is count_nonzero(row) / len(row)
\* over the full row; it is exactly 0 for an all-zero row and exactly 1 for an
\* all-nonzero row.
C8_DensityOverFullRow ==
    LET full == FullRegistry
    IN  /\ \A h \in HandledFeatures :
              LET row == full[h.index + 1]
                  nz == NonZeroPositions(row)
                  d == h.density
              IN  /\ d[2] > 0
                  /\ d[1] * Len(row) = Cardinality(nz) * d[2]
                  /\ nz = {} => d = <<0, 1>>
        /\ \A f \in DOMAIN full :
              /\ NonZeroPositions(full[f]) = {} => Density(full[f]) = <<0, 1>>
              /\ ZeroPositions(full[f]) = {} => Density(full[f]) = <<1, 1>>

\* An emitted Feature whose row has non-zero entries outside its evidence sets.
C8_Witness ==
    \E h \in HandledFeatures :
        Cardinality(NonZeroPositions(FullRow(h.index))) > Len(h.high_act_samples)

\* C9: the confidence of every emitted Feature is |high_score - low_score|
\* of the percents its two scoring calls returned; it is the same with the
\* scores exchanged, lies in 0..100 when both scores do, and is 0 when the
\* scores are equal.
C9_ConfidenceIsAbsoluteGap ==
    \A h \in HandledFeatures :
        LET cs == ServiceCalls(h.index)
            hs == cs[2].out.resp.percent
            ls == cs[3].out.resp.percent
            c == h.confidence
        IN  /\ c = IF hs >= ls THEN hs - ls ELSE ls - hs
            /\ c = Confidence(ls, hs)
            /\ (hs \in 0..100 /\ ls \in 0..100) => c \in 0..100
            /\ hs = ls => c = 0

\* An emitted Feature whose low-evidence score exceeds its high-evidence score.
C9_Witness ==
    \E h \in HandledFeatures :
        LET cs == ServiceCalls(h.index)
        IN  cs[3].out.resp.percent > cs[2].out.resp.percent

\* C10: for each feature the service calls are, in this order and each at
\* most once, get_interpretation on the two evidence sets, score_interpretation
\* on the high-evidence set and score_interpretation on the low-evidence set,
\* both with the attributes its own interpretation returned; no call follows a
\* failed one; handler invocations come in increasing index order, each
\* before any service call of a later feature.
C10_ServiceCallOrder ==
    /\ \A f \in 0..index :
          LET cs == ServiceCalls(f)
          IN  /\ Len(cs) <= 3
              /\ Len(cs) >= 1 =>
                    /\ cs[1].fn = "get_interpretation"
                    /\ (f = index /\ pc \in {"score_high", "score_low", "emit"}) =>
                          cs[1].args = <<high_act_samples, low_act_samples>>
              /\ Len(cs) >= 2 =>
                    /\ Succeeded(cs[1])
                    /\ cs[2].fn = "score_interpretation"
                    /\ cs[2].args = <<cs[1].args[1], cs[1].out.resp.attributes>>
              /\ Len(cs) >= 3 =>
                    /\ Succeeded(cs[2])
                    /\ cs[3].fn = "score_interpretation"
                    /\ cs[3].args = <<cs[1].args[2], cs[1].out.resp.attributes>>
    /\ \A p, q \in DOMAIN calls :
          p < q =>
             /\ calls[p].index <= calls[q].index
             /\ IsHandlerCall(calls[p]) => calls[p].index < calls[q].index

\* Two features handed over in one run.
C10_Witness == Len(Handled) = 2

====
